---- MODULE Spec2Model ----
(***************************************************************************)
(* FSA diagram recognition pipeline (FLAbot/fsa_processor.py) and the      *)
(* upload handler that calls it (FLAbot/app.py).                           *)
(*                                                                         *)
(* The OpenCV detectors (HoughCircles, HoughLinesP, findContours, ...) are *)
(* functions of pixel data; their outputs are the nondeterministic inputs  *)
(* of the model.  Everything the Python code computes from those outputs   *)
(* (ordering, tagging, endpoint matching, deduplication, sorting, label    *)
(* fallback, index lookups, error propagation) is modelled as written.     *)
(*                                                                         *)
(* A state dict {'center','radius','bbox'} is the record                   *)
(* [center |-> <<x, y>>, radius |-> r]; 'bbox' is a function of the other  *)
(* two fields, so dict equality (==, !=, list.index) is record equality.   *)
(***************************************************************************)
EXTENDS Integers, Sequences, FiniteSets, TLC

\* ----------------------------------------------------------------------
\* Bounds of the model
\* ----------------------------------------------------------------------
MaxStates == 3
MaxLines == 3
MaxScore == 2

\* ----------------------------------------------------------------------
\* Program constants
\* ----------------------------------------------------------------------
minDist == 50
BoundaryTolerance == 20
LabelOffset == 20
OrdA == 97

\* Python's None (for a state designate)
None == [none |-> TRUE]

\* Truthiness of "a state dict or None": a non-empty dict is truthy
Truthy(s) == s # None

\* ----------------------------------------------------------------------
\* Detector output universes
\* ----------------------------------------------------------------------
Circle(x, y, r) == [center |-> <<x, y>>, radius |-> r]

CircleL == Circle(100, 100, 40)
CircleR == Circle(300, 100, 40)
CircleD == Circle(300, 300, 40)

Circles == {CircleL, CircleR, CircleD}

Dist2(c, x, y) == (c[1] - x) * (c[1] - x) + (c[2] - y) * (c[2] - y)

\* HoughCircles keeps centres at least minDist apart
Abs(n) == IF n < 0 THEN -n ELSE n

WellSeparated(cands) ==
    \A a, b \in 1..Len(cands) :
        a # b => \/ Abs(cands[a].center[1] - cands[b].center[1]) >= minDist
                 \/ Abs(cands[a].center[2] - cands[b].center[2]) >= minDist
                 \/ Dist2(cands[a].center, cands[b].center[1], cands[b].center[2])
                       >= minDist * minDist

CandidateLists ==
    { c \in UNION { [1..n -> Circles] : n \in 0..MaxStates } : WellSeparated(c) }

\* Segments (x1, y1, x2, y2) as HoughLinesP may report them
SegLR   == <<140, 100, 260, 100>>
SegRL   == <<260, 100, 140, 100>>
\* two near-vertical strokes between the right and the lower circle, slanted
\* opposite ways; both have x1 < x2, whichever end the detector reports first
SegRD   == <<298, 140, 302, 260>>
SegDR   == <<298, 260, 302, 140>>
SegSelf == <<85, 45, 115, 45>>
SegStroke == <<20, 100, 60, 100>>

Segments == {SegLR, SegRL, SegRD, SegDR, SegSelf, SegStroke}

\* HoughLinesP returns None (modelled as <<>>) or a non-empty array; a reported
\* segment's pixels are erased from the accumulator, so no segment comes twice
Distinct(s) == \A a, b \in 1..Len(s) : a # b => s[a] # s[b]

LineLists == { s \in UNION { [1..n -> Segments] : n \in 0..MaxLines } : Distinct(s) }

Glyphs == {"", "a", "b"}

\* ----------------------------------------------------------------------
\* Python list helpers
\* ----------------------------------------------------------------------
InSeq(x, s) == \E k \in 1..Len(s) : s[k] = x

\* list.index(v): 0-based position of the first element equal to v
IndexOf(s, v) == (CHOOSE k \in 1..Len(s) : s[k] = v /\ \A j \in 1..(k-1) : s[j] # v) - 1

\* ----------------------------------------------------------------------
\* detect_initial_state_arrow
\* ----------------------------------------------------------------------
RECURSIVE LeftmostFrom(_, _, _)
LeftmostFrom(states, k, leftmost) ==
    IF k > Len(states) THEN leftmost
    ELSE IF leftmost = None \/ states[k].center[1] < leftmost.center[1]
         THEN LeftmostFrom(states, k + 1, states[k])
         ELSE LeftmostFrom(states, k + 1, leftmost)

\* angle = abs(arctan2(y2 - y1, x2 - x1)) < pi/6
NearHorizontal(l) ==
    LET dx == l[3] - l[1]
        dy == l[4] - l[2]
    IN  (dx > 0 /\ 3 * dy * dy < dx * dx) \/ (dx = 0 /\ dy = 0)

ArrowStroke == <<0, 40, 50, 40>>
ArrowStrokeRev == <<50, 40, 0, 40>>
ArrowSteep == <<10, 0, 40, 60>>
ArrowSegments == {ArrowStroke, ArrowStrokeRev, ArrowSteep}
ArrowLineLists == UNION { [1..n -> ArrowSegments] : n \in 0..1 }

\* arrow_lines = <<>> stands for an empty region of interest and for "lines is None"
detect_initial_state_arrow(states, arrow_lines) ==
    LET leftmost_state == LeftmostFrom(states, 1, None)
    IN  IF Truthy(leftmost_state)
           /\ \E k \in 1..Len(arrow_lines) : NearHorizontal(arrow_lines[k])
        THEN leftmost_state
        ELSE None

\* ----------------------------------------------------------------------
\* detect_double_circles
\* ----------------------------------------------------------------------
RECURSIVE BestFrom(_, _, _, _, _)
BestFrom(states, scores, k, max_circle_score, best) ==
    IF k > Len(states) THEN best
    ELSE IF scores[k] > max_circle_score
         THEN BestFrom(states, scores, k + 1, scores[k], states[k])
         ELSE BestFrom(states, scores, k + 1, max_circle_score, best)

\* detect_double_circles without the contour test on the ring masks
detect_double_circles_unconfirmed(states, scores, outer_contours, inner_contours) ==
    BestFrom(states, scores, 1, 0, None)

detect_double_circles(states, scores, outer_contours, inner_contours) ==
    LET best_final_state == BestFrom(states, scores, 1, 0, None)
    IN  IF Truthy(best_final_state) /\ outer_contours = 1 /\ inner_contours = 1
        THEN best_final_state
        ELSE None

\* ----------------------------------------------------------------------
\* process_fsa_image: reordering and tagging
\* ----------------------------------------------------------------------
RECURSIVE NormalsFrom(_, _, _, _)
NormalsFrom(states, k, initial, final) ==
    IF k > Len(states) THEN <<>>
    ELSE IF states[k] # initial /\ states[k] # final
         THEN <<states[k]>> \o NormalsFrom(states, k + 1, initial, final)
         ELSE NormalsFrom(states, k + 1, initial, final)

Reorder(states, initial, final) ==
    (IF Truthy(initial) THEN <<initial>> ELSE <<>>)
    \o NormalsFrom(states, 1, initial, final)
    \o (IF Truthy(final) THEN <<final>> ELSE <<>>)

StateTypes(state, initial, final) ==
    LET tags == (IF state = initial THEN <<"Initial">> ELSE <<>>)
                \o (IF state = final THEN <<"Final">> ELSE <<>>)
    IN  IF tags = <<>> THEN <<"Normal">> ELSE tags

BuildStateInfo(reordered, initial, final) ==
    [ k \in 1..Len(reordered) |->
        [ id |-> k - 1,
          type |-> StateTypes(reordered[k], initial, final),
          center |-> reordered[k].center,
          radius |-> reordered[k].radius ] ]

\* ----------------------------------------------------------------------
\* sorted(..., key=...) / list.sort(key=...): ascending and stable
\* ----------------------------------------------------------------------
Rank(keys, k) ==
    1 + Cardinality({ j \in 1..Len(keys) :
                        keys[j] < keys[k] \/ (keys[j] = keys[k] /\ j < k) })

StableSort(seq, keys) ==
    [ p \in 1..Len(seq) |-> seq[CHOOSE k \in 1..Len(seq) : Rank(keys, k) = p] ]

\* sorted(states, key=lambda s: s['center'][0])
SortStatesByX(states) ==
    StableSort(states, [ k \in 1..Len(states) |-> states[k].center[1] ])

\* transitions.sort(key=lambda t: t['source']['center'][0])
SortTransitions(ts) ==
    StableSort(ts, [ k \in 1..Len(ts) |-> ts[k].source.center[1] ])

\* ----------------------------------------------------------------------
\* detect_transitions
\* ----------------------------------------------------------------------
\* Canonical without the endpoint swap
CanonicalNoSwap(l) == l

\* if x2 < x1: swap the endpoints
Canonical(l) ==
    IF l[3] < l[1] THEN <<l[3], l[4], l[1], l[2]>> ELSE l

\* abs(sqrt(d2) - radius) < 20, on exact integers
NearBoundary(s, x, y) ==
    LET d2 == Dist2(s.center, x, y)
        hi == s.radius + BoundaryTolerance
        lo == s.radius - BoundaryTolerance
    IN  /\ Abs(s.center[1] - x) < hi
        /\ Abs(s.center[2] - y) < hi
        /\ d2 < hi * hi /\ (lo < 0 \/ d2 > lo * lo)

\* nearest qualifying state for one endpoint; first in sorted order on ties
RECURSIVE MatchFrom(_, _, _, _, _)
MatchFrom(sorted_states, k, x, y, best) ==
    IF k > Len(sorted_states) THEN best
    ELSE IF NearBoundary(sorted_states[k], x, y)
            /\ (best = None
                \/ Dist2(sorted_states[k].center, x, y) < Dist2(best.center, x, y))
         THEN MatchFrom(sorted_states, k + 1, x, y, sorted_states[k])
         ELSE MatchFrom(sorted_states, k + 1, x, y, best)

MatchEndpoint(sorted_states, x, y) == MatchFrom(sorted_states, 1, x, y, None)

\* Connects without the source_state != dest_state test
ConnectsAllowSelf(source_state, dest_state) ==
    Truthy(source_state) /\ Truthy(dest_state)

\* if source_state and dest_state and source_state != dest_state
Connects(source_state, dest_state) ==
    Truthy(source_state) /\ Truthy(dest_state) /\ source_state # dest_state

\* state_pair = (states.index(source_state), states.index(dest_state))
StatePair(states, source_state, dest_state) ==
    <<IndexOf(states, source_state), IndexOf(states, dest_state)>>

\* Unprocessed with the processed_pairs lookup lost
UnprocessedAlways(state_pair, processed_pairs) == TRUE

\* if state_pair not in processed_pairs
Unprocessed(state_pair, processed_pairs) == state_pair \notin processed_pairs

\* (a + b) // 2
FloorHalf(n) == n \div 2

MakeTransition(sorted_states, l, source_state, dest_state) ==
    [ source |-> source_state,
      destination |-> dest_state,
      line_points |-> l,
      midpoint |-> <<FloorHalf(l[1] + l[3]), FloorHalf(l[2] + l[4])>>,
      label_position |-> <<FloorHalf(l[1] + l[3]), FloorHalf(l[2] + l[4]) - LabelOffset>>,
      source_idx |-> IndexOf(sorted_states, source_state),
      dest_idx |-> IndexOf(sorted_states, dest_state) ]

RECURSIVE DetectFrom(_, _, _, _, _, _)
DetectFrom(states, sorted_states, segs, k, transitions, processed_pairs) ==
    IF k > Len(segs) THEN transitions
    ELSE
      LET l == Canonical(segs[k])
          source_state == MatchEndpoint(sorted_states, l[1], l[2])
          dest_state == MatchEndpoint(sorted_states, l[3], l[4])
      IN  IF Connects(source_state, dest_state)
             /\ Unprocessed(StatePair(states, source_state, dest_state), processed_pairs)
          THEN DetectFrom(states, sorted_states, segs, k + 1,
                          Append(transitions,
                                 MakeTransition(sorted_states, l, source_state, dest_state)),
                          processed_pairs
                            \cup {StatePair(states, source_state, dest_state)})
          ELSE DetectFrom(states, sorted_states, segs, k + 1, transitions, processed_pairs)

\* segs = <<>> stands for "lines is None"
detect_transitions(states, segs) ==
    IF segs = <<>> THEN <<>>
    ELSE DetectFrom(states, SortStatesByX(states), segs, 1, <<>>, {})

\* ----------------------------------------------------------------------
\* extract_transition_label
\* ----------------------------------------------------------------------
Ascii97 == << "a", "b", "c", "d", "e", "f", "g", "h", "i", "j", "k", "l", "m",
              "n", "o", "p", "q", "r", "s", "t", "u", "v", "w", "x", "y", "z",
              "{", "|", "}", "~" >>

\* chr(n) for 97 <= n <= 126
Chr(n) == Ascii97[n - 96]

\* extract_transition_label with the fallback applied to a single transition too
extract_transition_label_any_total(glyph, transition_idx, total_transitions) ==
    IF glyph = "" /\ total_transitions > 0
    THEN IF transition_idx = 0 THEN "a"
         ELSE IF transition_idx = 1 THEN "b"
         ELSE Chr(OrdA + transition_idx)
    ELSE glyph

\* glyph is what detect_small_character returned
extract_transition_label(glyph, transition_idx, total_transitions) ==
    IF glyph = "" /\ total_transitions > 1
    THEN IF transition_idx = 0 THEN "a"
         ELSE IF transition_idx = 1 THEN "b"
         ELSE Chr(OrdA + transition_idx)
    ELSE glyph

\* TransitionEntry reading the sorted_states positions stored by detect_transitions
TransitionEntrySortedIdx(reordered, transition, label) ==
    [ source |-> transition.source_idx,
      destination |-> transition.dest_idx,
      label |-> label ]

\* source_idx = reordered_states.index(transition['source']), same for destination
TransitionEntry(reordered, transition, label) ==
    [ source |-> IndexOf(reordered, transition.source),
      destination |-> IndexOf(reordered, transition.destination),
      label |-> label ]

\* NoStates with the emptiness test lost
NoStatesNever(states) == FALSE

\* if not states: raise ValueError("No states detected in the image")
NoStates(states) == Len(states) = 0

\* ----------------------------------------------------------------------
\* State
\* ----------------------------------------------------------------------
VARIABLES
    pc,                \* position inside process_fsa_image
    error,             \* message of the exception that left process_fsa_image
    states,            \* detect_circles output (detection order)
    initial_state,     \* detect_initial_state_arrow output
    final_state,       \* detect_double_circles output
    reordered_states,
    lines,             \* HoughLinesP output inside detect_transitions
    transitions,       \* detect_transitions output, sorted
    state_info,
    transition_data,
    recognized,        \* detect_small_character results, one per processed transition
    steps,             \* pipeline stages that have run
    debug,             \* outcome of cv2.imwrite / cv2.imshow
    returned,          \* {} or {fsa_data}
    \* upload handler, one entry per concurrent request
    cpc, upload, file, original_image, image, response,
    \* one function of fsa_processor.py called on its own: name, arguments, result
    call,
    result_image,      \* what has been drawn on the copy of original_image
    label_image,       \* per transition, the drawings on the image its label was read from
    ink                \* per transition, the glyph original_image holds at its label anchor

pipeVars == <<pc, error, states, initial_state, final_state, reordered_states, lines,
              transitions, state_info, transition_data, recognized, steps, debug,
              returned>>
concVars == <<cpc, upload, file, original_image, image, response>>
drawVars == <<result_image, label_image, ink>>
vars == <<pipeVars, concVars, call, drawVars>>

NoError == ""
LoadError == "Could not load image"
NoStatesError == "No states detected in the image"
CvError == "cv2.error"

Requests == {1, 2}
NoImage == "none"
Images == {"diagram1.png", "diagram2.png", "diagram3.png"}

PipeInit ==
    /\ pc = "imread"
    /\ result_image = {}
    /\ label_image = <<>>
    /\ ink = <<>>
    /\ error = NoError
    /\ states = <<>>
    /\ initial_state = None
    /\ final_state = None
    /\ reordered_states = <<>>
    /\ lines = <<>>
    /\ transitions = <<>>
    /\ state_info = <<>>
    /\ transition_data = <<>>
    /\ recognized = <<>>
    /\ steps = {}
    /\ debug = [write |-> "pending", show |-> "pending"]
    /\ returned = {}

ConcInit ==
    /\ cpc = [p \in Requests |-> "idle"]
    /\ upload = [p \in Requests |-> NoImage]
    /\ file = NoImage
    /\ original_image = [p \in Requests |-> NoImage]
    /\ image = [p \in Requests |-> NoImage]
    /\ response = [p \in Requests |-> {}]

\* no function is being called on its own
NoCall == [fn |-> "none"]

Init == PipeInit /\ ConcInit /\ call = NoCall

\* except Exception as e: print(...); raise
Raise(msg) ==
    /\ pc' = "failed"
    /\ error' = msg

\* ----------------------------------------------------------------------
\* process_fsa_image: the debug overlay
\* ----------------------------------------------------------------------
\* An image is modelled by the set of overlay drawings on it; nothing is drawn
\* on original_image, which holds the diagram as read.
OriginalMarks == {}

\* result_image = original_image.copy()
Copy(marks) == marks

\* cv2.circle / cv2.putText for every state
DrawStateMarks(marks, n) == marks \cup { <<"state", k>> : k \in 0..(n - 1) }

\* cv2.line x 3 for transition i: the segment and its arrow head
ArrowMarks(i) == { <<"arrow", i>> }

\* the dot at the label position, the search box and the text "Ti: 'label'"
LabelMarks(i) == { <<"search_box", i>>, <<"text", i>> }

\* reading the label from the image that is drawn on
LabelImageDrawn(original, result) == result

\* the image handed to extract_transition_label
LabelImage(original, result) == original

\* detect_small_character: the glyphs it may classify at the anchor; drawings
\* over the anchor region change the contours it finds
detect_small_character(glyph, marks) == IF marks = {} THEN {glyph} ELSE Glyphs

\* ----------------------------------------------------------------------
\* process_fsa_image, one action per stage
\* ----------------------------------------------------------------------
ReadOriginal ==
    /\ pc = "imread"
    /\ \E loaded \in BOOLEAN :
          IF loaded THEN pc' = "preprocess" /\ error' = error
                    ELSE Raise(LoadError)
    /\ steps' = steps \cup {"imread"}
    /\ UNCHANGED <<states, initial_state, final_state, reordered_states, lines,
                   transitions, state_info, transition_data, recognized, debug, returned>>
    /\ UNCHANGED <<concVars, call, drawVars>>

Preprocess ==
    /\ pc = "preprocess"
    /\ \E loaded \in BOOLEAN :
          IF loaded THEN pc' = "detect_circles" /\ error' = error
                    ELSE Raise(LoadError)
    /\ steps' = steps \cup {"preprocess"}
    /\ UNCHANGED <<states, initial_state, final_state, reordered_states, lines,
                   transitions, state_info, transition_data, recognized, debug, returned>>
    /\ UNCHANGED <<concVars, call, drawVars>>

DetectCircles ==
    /\ pc = "detect_circles"
    /\ \E cands \in CandidateLists :
          /\ states' = cands
          /\ IF NoStates(cands) THEN Raise(NoStatesError)
                                ELSE pc' = "detect_initial" /\ error' = error
    /\ steps' = steps \cup {"detect_circles"}
    /\ UNCHANGED <<initial_state, final_state, reordered_states, lines,
                   transitions, state_info, transition_data, recognized, debug, returned>>
    /\ UNCHANGED <<concVars, call, drawVars>>

DetectInitial ==
    /\ pc = "detect_initial"
    /\ \E arrow_lines \in ArrowLineLists :
          initial_state' = detect_initial_state_arrow(states, arrow_lines)
    /\ pc' = "detect_final"
    /\ steps' = steps \cup {"detect_initial"}
    /\ UNCHANGED <<error, states, final_state, reordered_states, lines,
                   transitions, state_info, transition_data, recognized, debug, returned>>
    /\ UNCHANGED <<concVars, call, drawVars>>

DetectFinal ==
    /\ pc = "detect_final"
    /\ \E scores \in [1..Len(states) -> 0..MaxScore], outer \in 1..2, inner \in 1..2 :
          final_state' = detect_double_circles(states, scores, outer, inner)
    /\ pc' = "reorder"
    /\ steps' = steps \cup {"detect_final"}
    /\ UNCHANGED <<error, states, initial_state, reordered_states, lines,
                   transitions, state_info, transition_data, recognized, debug, returned>>
    /\ UNCHANGED <<concVars, call, drawVars>>

ReorderStates ==
    /\ pc = "reorder"
    /\ reordered_states' = Reorder(states, initial_state, final_state)
    /\ pc' = "detect_transitions"
    /\ steps' = steps \cup {"reorder"}
    /\ UNCHANGED <<error, states, initial_state, final_state, lines,
                   transitions, state_info, transition_data, recognized, debug, returned>>
    /\ UNCHANGED <<concVars, call, drawVars>>

DetectTransitions ==
    /\ pc = "detect_transitions"
    /\ \E segs \in LineLists :
          /\ lines' = segs
          /\ transitions' = SortTransitions(detect_transitions(reordered_states, segs))
    /\ pc' = "state_info"
    /\ steps' = steps \cup {"detect_transitions"}
    /\ UNCHANGED <<error, states, initial_state, final_state, reordered_states,
                   state_info, transition_data, recognized, debug, returned>>
    /\ UNCHANGED <<concVars, call, drawVars>>

DrawStates ==
    /\ pc = "state_info"
    /\ state_info' = BuildStateInfo(reordered_states, initial_state, final_state)
    /\ pc' = "transition_loop"
    /\ steps' = steps \cup {"state_info"}
    /\ result_image' = DrawStateMarks(Copy(OriginalMarks), Len(reordered_states))
    /\ UNCHANGED <<error, states, initial_state, final_state, reordered_states, lines,
                   transitions, transition_data, recognized, debug, returned>>
    /\ UNCHANGED <<concVars, call, label_image, ink>>

\* one iteration of "for i, transition in enumerate(transitions)"
ProcessTransition ==
    /\ pc = "transition_loop"
    /\ Len(transition_data) < Len(transitions)
    /\ LET i == Len(transition_data)
           transition == transitions[i + 1]
           with_arrow == result_image \cup ArrowMarks(i)
           read_from == LabelImage(OriginalMarks, with_arrow)
       IN  \E glyph \in Glyphs :
           \E label \in detect_small_character(glyph, read_from) :
              /\ ink' = Append(ink, glyph)
              /\ label_image' = Append(label_image, read_from)
              /\ recognized' = Append(recognized, label)
              /\ transition_data' =
                    Append(transition_data,
                           TransitionEntry(reordered_states, transition,
                               extract_transition_label(label, i, Len(transitions))))
              /\ result_image' = with_arrow \cup LabelMarks(i)
    /\ steps' = steps \cup {"label"}
    /\ UNCHANGED <<pc, error, states, initial_state, final_state, reordered_states, lines,
                   transitions, state_info, debug, returned>>
    /\ UNCHANGED <<concVars, call>>

\* The end of the try block: cv2.imwrite(debug_path, result_image) returns True, or
\* False when the fixed .png path cannot be written, and the value is not looked
\* at; cv2.imshow('image', result_image) raises cv2.error when no window can be
\* made; otherwise fsa_data is built and returned.
SaveShowReturn ==
    /\ pc = "transition_loop"
    /\ Len(transition_data) = Len(transitions)
    /\ \E wrote \in {"written", "not_written"}, show \in {"shown", "raised"} :
          /\ debug' = [write |-> wrote, show |-> show]
          /\ IF show = "raised"
             THEN Raise(CvError) /\ returned' = returned
             ELSE /\ pc' = "done"
                  /\ error' = error
                  /\ returned' = {[states |-> state_info, transitions |-> transition_data]}
    /\ steps' = steps \cup {"imwrite", "imshow"}
    /\ UNCHANGED <<states, initial_state, final_state, reordered_states, lines,
                   transitions, state_info, transition_data, recognized>>
    /\ UNCHANGED <<concVars, call, drawVars>>

Next ==
    \/ ReadOriginal
    \/ Preprocess
    \/ DetectCircles
    \/ DetectInitial
    \/ DetectFinal
    \/ ReorderStates
    \/ DetectTransitions
    \/ DrawStates
    \/ ProcessTransition
    \/ SaveShowReturn

Spec == Init /\ [][Next]_vars

\* ----------------------------------------------------------------------
\* app.py process_image: concurrent requests of the threaded development server
\* ----------------------------------------------------------------------
\* The graph a run returns is a function of the two pixel buffers it read:
\* original_image (labels) and image/thresh (states and transitions).
GraphOf(original, img) == [labels_from |-> original, shapes_from |-> img]

Busy(p) == cpc[p] \notin {"idle", "done"}

\* a request arrives with its own upload, different from the uploads in flight
Arrive(p) ==
    /\ cpc[p] \in {"idle", "done"}
    /\ \E img \in Images :
          /\ \A q \in Requests \ {p} : Busy(q) => upload[q] # img
          /\ upload' = [upload EXCEPT ![p] = img]
    /\ cpc' = [cpc EXCEPT ![p] = "save"]
    /\ original_image' = [original_image EXCEPT ![p] = NoImage]
    /\ image' = [image EXCEPT ![p] = NoImage]
    /\ response' = [response EXCEPT ![p] = {}]
    /\ UNCHANGED file
    /\ UNCHANGED <<pipeVars, call, drawVars>>

\* file.save(os.path.join("static", "uploaded_image.png"))
SaveUpload(p) ==
    /\ cpc[p] = "save"
    /\ file' = upload[p]
    /\ cpc' = [cpc EXCEPT ![p] = "imread"]
    /\ UNCHANGED <<upload, original_image, image, response>>
    /\ UNCHANGED <<pipeVars, call, drawVars>>

\* original_image = cv2.imread(image_path)
ReadUpload(p) ==
    /\ cpc[p] = "imread"
    /\ original_image' = [original_image EXCEPT ![p] = file]
    /\ cpc' = [cpc EXCEPT ![p] = "preprocess"]
    /\ UNCHANGED <<upload, file, image, response>>
    /\ UNCHANGED <<pipeVars, call, drawVars>>

\* image, thresh = preprocess_image(image_path): a second cv2.imread of the path
ReadUploadAgain(p) ==
    /\ cpc[p] = "preprocess"
    /\ image' = [image EXCEPT ![p] = file]
    /\ cpc' = [cpc EXCEPT ![p] = "detect"]
    /\ UNCHANGED <<upload, file, original_image, response>>
    /\ UNCHANGED <<pipeVars, call, drawVars>>

\* the detection steps work on the request's own buffers; the graph is returned
Respond(p) ==
    /\ cpc[p] = "detect"
    /\ response' = [response EXCEPT ![p] = {GraphOf(original_image[p], image[p])}]
    /\ cpc' = [cpc EXCEPT ![p] = "done"]
    /\ UNCHANGED <<upload, file, original_image, image>>
    /\ UNCHANGED <<pipeVars, call, drawVars>>

ConcNext ==
    \E p \in Requests :
        \/ Arrive(p)
        \/ SaveUpload(p)
        \/ ReadUpload(p)
        \/ ReadUploadAgain(p)
        \/ Respond(p)

ConcSpec == Init /\ [][ConcNext]_vars

\* ======================================================================
\* Properties
\* ======================================================================
Tagged(entry, tag) == InSeq(tag, entry.type)

CircleOf(entry) == Circle(entry.center[1], entry.center[2], entry.radius)

\* the state the endpoint (x, y) is matched to, over the ordered state list
Resolved(x, y) == MatchEndpoint(SortStatesByX(reordered_states), x, y)
SegSource(seg) == Resolved(Canonical(seg)[1], Canonical(seg)[2])
SegDest(seg) == Resolved(Canonical(seg)[3], Canonical(seg)[4])
SegConnects(seg) ==
    Truthy(SegSource(seg)) /\ Truthy(SegDest(seg)) /\ SegSource(seg) # SegDest(seg)
SegPair(seg) ==
    <<IndexOf(reordered_states, SegSource(seg)), IndexOf(reordered_states, SegDest(seg))>>

SourceId(t) == IndexOf(reordered_states, t.source)
DestId(t) == IndexOf(reordered_states, t.destination)

\* detect_transitions has just returned (and its result has been sorted)
AfterDetection == pc = "state_info"

\* C1 (as claimed): in every returned graph at most one entry carries Initial,
\* at most one carries Final, and every entry carries at least one tag.
C1_SingleInitialAndFinal ==
    \A g \in returned :
        /\ Cardinality({ k \in 1..Len(g.states) : Tagged(g.states[k], "Initial") }) <= 1
        /\ Cardinality({ k \in 1..Len(g.states) : Tagged(g.states[k], "Final") }) <= 1
        /\ \A k \in 1..Len(g.states) : Len(g.states[k].type) >= 1

\* C2 (as claimed): an Initial-tagged entry is at index 0, a Final-tagged entry is
\* at the last index, and the other entries keep detection order.
C2_OrderingInvariant ==
    \A g \in returned :
        /\ \A k \in 1..Len(g.states) : Tagged(g.states[k], "Initial") => k = 1
        /\ \A k \in 1..Len(g.states) : Tagged(g.states[k], "Final") => k = Len(g.states)
        /\ \A k, l \in 1..Len(g.states) :
              ( /\ k < l
                /\ Tagged(g.states[k], "Normal")
                /\ Tagged(g.states[l], "Normal") )
              => IndexOf(states, CircleOf(g.states[k])) < IndexOf(states, CircleOf(g.states[l]))

\* C3 (as claimed): detect_transitions never emits two transitions with the same
\* unordered {source, destination} pair.
C3_UnorderedPairUnique ==
    AfterDetection =>
        \A a, b \in 1..Len(transitions) :
            a # b => {SourceId(transitions[a]), DestId(transitions[a])}
                       # {SourceId(transitions[b]), DestId(transitions[b])}

\* C3 (what the code guarantees instead): detect_transitions never emits two
\* transitions with the same ordered (source, destination) pair, and the
\* transition kept for an ordered pair is the first detected segment that
\* resolves to it.
C3_OrderedPairUnique ==
    AfterDetection =>
        /\ \A a, b \in 1..Len(transitions) :
              a # b => <<SourceId(transitions[a]), DestId(transitions[a])>>
                         # <<SourceId(transitions[b]), DestId(transitions[b])>>
        /\ \A a \in 1..Len(transitions) :
              \E k \in 1..Len(lines) :
                  /\ SegConnects(lines[k])
                  /\ SegPair(lines[k]) = <<SourceId(transitions[a]), DestId(transitions[a])>>
                  /\ transitions[a].line_points = Canonical(lines[k])
                  /\ \A j \in 1..(k - 1) :
                        SegConnects(lines[j]) => SegPair(lines[j]) # SegPair(lines[k])
        /\ \A k \in 1..Len(lines) :
              SegConnects(lines[k]) =>
                  \E a \in 1..Len(transitions) :
                      <<SourceId(transitions[a]), DestId(transitions[a])>> = SegPair(lines[k])

\* a later segment was dropped because its ordered pair had been processed
C3_Witness ==
    /\ pc = "state_info"
    /\ \E j, k \in 1..Len(lines) :
          /\ j < k
          /\ SegConnects(lines[j])
          /\ SegConnects(lines[k])
          /\ SegPair(lines[j]) = SegPair(lines[k])
    /\ Len(transitions) >= 1

\* C4: no emitted transition and no returned transition has source equal to
\* destination; a segment whose endpoints resolve to the same state is discarded.
C4_NoSelfLoop ==
    /\ AfterDetection =>
          /\ \A a \in 1..Len(transitions) :
                /\ transitions[a].source # transitions[a].destination
                /\ SourceId(transitions[a]) # DestId(transitions[a])
                /\ transitions[a].source_idx # transitions[a].dest_idx
          /\ \A k \in 1..Len(lines) :
                ( Truthy(SegSource(lines[k])) /\ SegSource(lines[k]) = SegDest(lines[k]) )
                => \A a \in 1..Len(transitions) :
                      transitions[a].line_points # Canonical(lines[k])
    /\ \A a \in 1..Len(transition_data) :
          transition_data[a].source # transition_data[a].destination
    /\ \A g \in returned : \A a \in 1..Len(g.transitions) :
          g.transitions[a].source # g.transitions[a].destination

\* a graph was returned for a run that saw a segment with both ends on one state
C4_Witness ==
    /\ pc = "done"
    /\ \E k \in 1..Len(lines) :
          Truthy(SegSource(lines[k])) /\ SegSource(lines[k]) = SegDest(lines[k])
    /\ Len(transition_data) >= 1

Downstream ==
    {"detect_initial", "detect_final", "reorder", "detect_transitions",
     "state_info", "label", "imwrite", "imshow"}

\* C5: when detect_circles returns no candidate the run fails with the no-states
\* error, returns no graph, and none of the later stages has run.
C5_NoStatesAborts ==
    ( "detect_circles" \in steps /\ Len(states) = 0 ) =>
        /\ pc = "failed"
        /\ error = NoStatesError
        /\ returned = {}
        /\ steps \cap Downstream = {}

C5_Witness ==
    /\ "detect_circles" \in steps
    /\ Len(states) = 0
    /\ pc = "failed"

\* C6 (as claimed): once circles were detected, a failure to write or display the
\* debug image does not fail the run.
C6_DebugFailureAbsorbed ==
    ( debug.write = "not_written" \/ debug.show = "raised" ) => pc # "failed"

\* C7 (as claimed): a request running concurrently with another returns the graph
\* it returns when run alone on its own upload.
C7_Isolation ==
    \A p \in Requests :
        cpc[p] = "done" => response[p] = {GraphOf(upload[p], upload[p])}

Letters == << "a", "b", "c", "d", "e", "f", "g", "h", "i", "j", "k", "l", "m",
              "n", "o", "p", "q", "r", "s", "t", "u", "v", "w", "x", "y", "z" >>

C9_Scenario ==
    /\ pc = "done"
    /\ Len(states) = 2
    /\ {states[1], states[2]} = {CircleL, CircleR}
    /\ initial_state = CircleL
    /\ \A k \in 1..Len(lines) : lines[k] \in {SegLR, SegRL, SegStroke}
    /\ \E k \in 1..Len(lines) : lines[k] \in {SegLR, SegRL}

C9_Shape(g) ==
    /\ g.states[1].id = 0
    /\ CircleOf(g.states[1]) = CircleL
    /\ Tagged(g.states[1], "Initial")
    /\ Len(g.transitions) = 1
    /\ g.transitions[1].source = 0
    /\ g.transitions[1].destination = 1
    /\ CircleOf(g.states[2]) = CircleR

\* C9 (as claimed): the two-circle diagram yields the left circle as Initial with
\* id 0 and one transition 0 -> 1 whose label is a glyph or "a", never empty.
C9_TwoCircleNonEmptyLabel ==
    C9_Scenario =>
        \A g \in returned : C9_Shape(g) /\ g.transitions[1].label \in {"a", "b"}

\* C9 (amended): the two-circle diagram yields the left circle as Initial with
\* id 0 and one transition 0 -> 1 whose label is the classified glyph, or the
\* empty string when no glyph is classified.
C9_TwoCircleLabel ==
    C9_Scenario =>
        \A g \in returned :
            /\ C9_Shape(g)
            /\ g.transitions[1].label = recognized[1]
            /\ g.transitions[1].label \in {"", "a", "b"}

C9_Witness ==
    /\ C9_Scenario
    /\ recognized = <<"">>
    /\ returned # {}

\* C10: state ids are the list positions, and each returned transition's source
\* and destination are ids of the list that name the states matched to the
\* segment's left and right endpoints.
C10_IdsArePositions ==
    /\ AfterDetection =>
          \A a \in 1..Len(transitions) :
              LET t == transitions[a]
              IN  /\ t.line_points[1] <= t.line_points[3]
                  /\ t.source = Resolved(t.line_points[1], t.line_points[2])
                  /\ t.destination = Resolved(t.line_points[3], t.line_points[4])
    /\ \A g \in returned :
          /\ \A k \in 1..Len(g.states) : g.states[k].id = k - 1
          /\ Len(g.transitions) = Len(transitions)
          /\ \A a \in 1..Len(g.transitions) :
                LET d == g.transitions[a]
                IN  /\ d.source \in 0..(Len(g.states) - 1)
                    /\ d.destination \in 0..(Len(g.states) - 1)
                    /\ CircleOf(g.states[d.source + 1]) = transitions[a].source
                    /\ CircleOf(g.states[d.destination + 1]) = transitions[a].destination

\* a graph with transitions whose state list is not in left-to-right order
C10_Witness ==
    /\ pc = "done"
    /\ Len(transition_data) >= 2
    /\ reordered_states # SortStatesByX(reordered_states)

\* C12 (as claimed): when the initial and the final designate are the same
\* candidate it appears exactly once in the returned states list, at index 0,
\* tagged Initial and Final, and the list has one entry per detected candidate
\* with ids 0..n-1.
C12_DegenerateOnce ==
    ( Truthy(initial_state) /\ initial_state = final_state ) =>
        \A g \in returned :
            /\ { k \in 1..Len(g.states) : CircleOf(g.states[k]) = initial_state } = {1}
            /\ g.states[1].type = <<"Initial", "Final">>
            /\ Len(g.states) = Len(states)
            /\ \A k \in 1..Len(g.states) : g.states[k].id = k - 1

\* ----------------------------------------------------------------------
\* detect_circles on an image wider than 65535 pixels
\* ----------------------------------------------------------------------
\* np.uint16(np.around(circles)): a coordinate above 65535 does not fit; the cast
\* of an out-of-range float is undefined in C and the builds either reduce it
\* modulo 2^16 or saturate it
Uint16(n, cast) ==
    IF n < 65536 THEN n
    ELSE IF cast = "wrap" THEN n % 65536 ELSE 65535

Casts == {"wrap", "saturate"}

\* a circle HoughCircles reports (float x, y, r), before the cast
CircleFar == Circle(65636, 100, 40)

WideCircles == {CircleL, CircleR, CircleFar}

WideCandidateLists ==
    { c \in UNION { [1..n -> WideCircles] : n \in 0..MaxStates } : WellSeparated(c) }

\* for i in circles[0, :]: states.append({'center': (i[0], i[1]), 'radius': i[2], ...})
ToStates(circles, cast) ==
    [ k \in 1..Len(circles) |->
        Circle(Uint16(circles[k].center[1], cast),
               Uint16(circles[k].center[2], cast),
               Uint16(circles[k].radius, cast)) ]

DetectCirclesWide ==
    /\ pc = "detect_circles"
    /\ \E circles \in WideCandidateLists, cast \in Casts :
          /\ states' = ToStates(circles, cast)
          /\ IF NoStates(circles) THEN Raise(NoStatesError)
                                  ELSE pc' = "detect_initial" /\ error' = error
    /\ steps' = steps \cup {"detect_circles"}
    /\ UNCHANGED <<initial_state, final_state, reordered_states, lines,
                   transitions, state_info, transition_data, recognized, debug, returned>>
    /\ UNCHANGED <<concVars, call, drawVars>>

WideNext ==
    \/ ReadOriginal
    \/ Preprocess
    \/ DetectCirclesWide
    \/ DetectInitial
    \/ DetectFinal
    \/ ReorderStates
    \/ DetectTransitions
    \/ DrawStates
    \/ ProcessTransition
    \/ SaveShowReturn

WideSpec == Init /\ [][WideNext]_vars

Occurrences(seq, v) == Cardinality({ k \in 1..Len(seq) : seq[k] = v })

\* C13 (as claimed): two detected candidates with equal center and radius both
\* appear in the returned states list, and designating one of them Initial or
\* Final neither drops nor tags the other.  (The run where one candidate is both
\* designates, C1's case, is left out.)
C13_TwinsKept ==
    ( /\ \E a, b \in 1..Len(states) : a # b /\ states[a] = states[b]
      /\ ~ ( Truthy(initial_state) /\ initial_state = final_state ) )
    => \A g \in returned : \A j \in 1..Len(states) :
          /\ Cardinality({ k \in 1..Len(g.states) : CircleOf(g.states[k]) = states[j] })
                = Occurrences(states, states[j])
          /\ Cardinality({ k \in 1..Len(g.states) :
                             /\ CircleOf(g.states[k]) = states[j]
                             /\ Tagged(g.states[k], "Initial") }) <= 1
          /\ Cardinality({ k \in 1..Len(g.states) :
                             /\ CircleOf(g.states[k]) = states[j]
                             /\ Tagged(g.states[k], "Final") }) <= 1

\* ----------------------------------------------------------------------
\* detect_double_circles called on its own
\* ----------------------------------------------------------------------
Pending == [pending |-> TRUE]

\* number of external contours cv2.findContours reports on one ring mask
ContourCounts == 0..2

\* arguments: the candidates, the ring score of each, and the contour counts of
\* the two ring masks of the highest-scoring candidate
FinalCalls ==
    UNION { { [fn |-> "detect_double_circles", states |-> s, scores |-> sc,
               outer_contours |-> o, inner_contours |-> i, result |-> Pending] :
                 sc \in [1..Len(s) -> 0..MaxScore],
                 o \in ContourCounts, i \in ContourCounts } :
            s \in CandidateLists \ {<<>>} }

FinalInit == PipeInit /\ ConcInit /\ call \in FinalCalls

CallDetectDoubleCircles ==
    /\ call.fn = "detect_double_circles"
    /\ call.result = Pending
    /\ call' = [call EXCEPT !.result =
                   detect_double_circles(call.states, call.scores,
                                         call.outer_contours, call.inner_contours)]
    /\ UNCHANGED <<pipeVars, concVars, drawVars>>

FinalSpec == FinalInit /\ [][CallDetectDoubleCircles]_vars

\* position of the maximum ring score, earliest in detection order on ties
TopScore(s, sc) ==
    CHOOSE k \in 1..Len(s) :
        /\ \A j \in 1..Len(s) : sc[j] <= sc[k]
        /\ \A j \in 1..(k - 1) : sc[j] < sc[k]

FinalCalled == call.fn = "detect_double_circles" /\ call.result # Pending

Confirmed == call.outer_contours = 1 /\ call.inner_contours = 1

\* C14 (as claimed): the maximum-score candidate (earliest on ties) is reported
\* exactly when each of its ring masks has one external contour, and nothing
\* else is ever reported.
C14_MaxIffConfirmed ==
    FinalCalled =>
        LET top == call.states[TopScore(call.states, call.scores)]
        IN  /\ (call.result = top) <=> Confirmed
            /\ call.result \in {top, None}

\* C14 (amended): the maximum-score candidate (earliest on ties) is reported
\* exactly when its score is positive and each of its ring masks has one
\* external contour; otherwise nothing is reported, never a lower-scoring
\* candidate.
C14_PositiveMaxIffConfirmed ==
    FinalCalled =>
        LET k == TopScore(call.states, call.scores)
        IN  call.result = IF call.scores[k] > 0 /\ Confirmed
                          THEN call.states[k] ELSE None

\* two candidates tie on the positive maximum, the masks are confirmed and the
\* earlier one has been reported
C14_Witness ==
    /\ FinalCalled
    /\ Len(call.states) >= 2
    /\ \E a, b \in 1..Len(call.states) :
          /\ a < b
          /\ call.scores[a] = call.scores[b]
          /\ call.scores[a] > 0
          /\ TopScore(call.states, call.scores) = a
          /\ call.result = call.states[a]
    /\ Confirmed

\* ----------------------------------------------------------------------
\* detect_initial_state_arrow called on its own
\* ----------------------------------------------------------------------
\* what HoughLinesP may report on the region left of the leftmost candidate:
\* nothing, or up to two different segments
ArrowCallLines ==
    { l \in UNION { [1..n -> ArrowSegments] : n \in 0..2 } : Distinct(l) }

InitialCalls ==
    { [fn |-> "detect_initial_state_arrow", states |-> s, arrow_lines |-> l,
       result |-> Pending] : s \in CandidateLists, l \in ArrowCallLines }

InitialInit == PipeInit /\ ConcInit /\ call \in InitialCalls

CallDetectInitialStateArrow ==
    /\ call.fn = "detect_initial_state_arrow"
    /\ call.result = Pending
    /\ call' = [call EXCEPT !.result =
                   detect_initial_state_arrow(call.states, call.arrow_lines)]
    /\ UNCHANGED <<pipeVars, concVars, drawVars>>

InitialSpec == InitialInit /\ [][CallDetectInitialStateArrow]_vars

\* the segment makes an angle below 30 degrees with the horizontal axis,
\* whichever endpoint comes first: |dy| < |dx| * tan(30 deg)
Below30Degrees(l) ==
    LET dx == l[3] - l[1]
        dy == l[4] - l[2]
    IN  3 * dy * dy < dx * dx

\* C15 (as claimed): the candidate with the minimum center x is returned when
\* some detected segment is within 30 degrees of horizontal, whatever the order
\* of its endpoints, and none is returned when there is no such segment; no
\* other candidate is ever returned.
C15_LeftmostIffStroke ==
    ( call.fn = "detect_initial_state_arrow" /\ call.result # Pending /\ call.states # <<>> )
    => IF \E k \in 1..Len(call.arrow_lines) : Below30Degrees(call.arrow_lines[k])
       THEN /\ InSeq(call.result, call.states)
            /\ \A j \in 1..Len(call.states) :
                  call.result.center[1] <= call.states[j].center[1]
       ELSE call.result = None

\* ----------------------------------------------------------------------
\* detect_small_character: the region of interest
\* ----------------------------------------------------------------------
SearchRadius == 30

Min2(a, b) == IF a < b THEN a ELSE b
Max2(a, b) == IF a > b THEN a ELSE b

\* a slice bound of a numpy axis of length n: a negative bound counts from the
\* end, and every bound is cut to 0..n
SliceBound(i, n) == IF i < 0 THEN Max2(0, i + n) ELSE Min2(i, n)

\* indices selected by a[lo:hi] on an axis of length n
Slice(lo, hi, n) == { k \in 0..(n - 1) : SliceBound(lo, n) <= k /\ k < SliceBound(hi, n) }

\* roi = image[y1:y2, x1:x2], as the rows and columns of image it holds
RegionOfInterest(shape, center_x, center_y) ==
    LET x1 == Max2(0, center_x - SearchRadius)
        y1 == Max2(0, center_y - SearchRadius)
        x2 == Min2(shape[2], center_x + SearchRadius)
        y2 == Min2(shape[1], center_y)
    IN  [rows |-> Slice(y1, y2, shape[1]), cols |-> Slice(x1, x2, shape[2])]

\* image.shape as (height, width)
Shapes == {<<200, 400>>, <<60, 80>>}

\* midpoints of transitions, inside either image
MidpointXs == {10, 25, 40, 60, 79}
MidpointYs == {5, 15, 20, 30, 50, 59}

\* the label anchor is the midpoint moved up by LabelOffset
CropCalls ==
    { [fn |-> "detect_small_character", shape |-> sh,
       center_x |-> mx, center_y |-> my - LabelOffset, roi |-> Pending] :
         sh \in Shapes, mx \in MidpointXs, my \in MidpointYs }

CropInit == PipeInit /\ ConcInit /\ call \in CropCalls

CallDetectSmallCharacter ==
    /\ call.fn = "detect_small_character"
    /\ call.roi = Pending
    /\ call' = [call EXCEPT !.roi =
                   RegionOfInterest(call.shape, call.center_x, call.center_y)]
    /\ UNCHANGED <<pipeVars, concVars, drawVars>>

CropSpec == CropInit /\ [][CallDetectSmallCharacter]_vars

\* C16 (as claimed): for every label anchor (x, y), also with y <= 0, the pixels
\* of the cropped region lie in [x-30, x+30] x [y-30, y]: none below the anchor,
\* none more than 30 pixels above it.
C16_CropInsideBox ==
    ( call.fn = "detect_small_character" /\ call.roi # Pending )
    => \A r \in call.roi.rows, c \in call.roi.cols :
          /\ call.center_x - SearchRadius <= c /\ c <= call.center_x + SearchRadius
          /\ call.center_y - SearchRadius <= r /\ r <= call.center_y

\* C17: nothing drawn for the states or for transitions 0..i reaches the image
\* the label of transition i is read from, every label is the glyph that
\* original_image holds, and the returned graph is the one built from those
\* glyphs alone.
C17_OverlayInvisible ==
    /\ \A k \in 1..Len(label_image) : label_image[k] = {}
    /\ recognized = ink
    /\ \A g \in returned :
          /\ g.states = BuildStateInfo(reordered_states, initial_state, final_state)
          /\ Len(g.transitions) = Len(transitions)
          /\ \A k \in 1..Len(g.transitions) :
                g.transitions[k] =
                    TransitionEntry(reordered_states, transitions[k],
                        extract_transition_label(ink[k], k - 1, Len(transitions)))

\* a graph was returned after two labels were read, the second with a glyph at
\* its anchor while the states and the first transition were already drawn
C17_Witness ==
    /\ pc = "done"
    /\ returned # {}
    /\ Len(ink) >= 2
    /\ ink[2] # ""
    /\ {<<"state", 0>>, <<"arrow", 0>>, <<"search_box", 0>>, <<"text", 0>>,
        <<"arrow", 1>>} \subseteq result_image

====
